---- MODULE Spec2Model ----
(***************************************************************************)
(* Verification model of the transcript tools of rl-trading-agent:         *)
(*   scripts/python/transcript_tor.py  retrieval through Tor with retries  *)
(*   scripts/python/transcript.py      plain retrieval and its CLI         *)
(* Strings are sequences of one-character strings, so that joining,        *)
(* lower-casing and substring search are computed, not assumed.  Times are *)
(* whole seconds.                                                          *)
(***************************************************************************)
EXTENDS Integers, Sequences, FiniteSets, TLC

VARIABLES
    pc,            \* position in fetch_transcript_via_tor
    video_id,      \* argument video_id
    max_retries,   \* argument max_retries
    attempt,       \* loop variable of `for attempt in range(max_retries)`
    result,        \* the record returned (empty until the call returns)
    raised,        \* TRUE when a fault left fetch_transcript_via_tor uncaught
    upstream,      \* log of the provider's answers to api.fetch, in call order
    rotlog,        \* log of the rotation requests: did the control connection work
    settles,       \* number of time.sleep(5) waits made (line 30)
    cooldowns,     \* number of time.sleep(2) waits made (line 76)
    script,        \* what runs: "fetch" a call of fetch_transcript_via_tor,
                   \* "tor" transcript_tor.py, "plain" transcript.py
    argv,          \* sys.argv[1:]
    main_pc,       \* position in main
    grouped,       \* transcript.py main: "--grouped" in sys.argv
    stdout,        \* the documents printed to standard output, in order
    exit_code,     \* exit code of the process, -1 while it runs
    g_segments,    \* group_by_pauses: argument segments
    g_threshold,   \* group_by_pauses: argument pause_threshold
    g_groups,      \* group_by_pauses: returned list
    g_pc,          \* group_by_pauses: "call" before, "done" after
    f_seconds,     \* format_timestamp: argument seconds
    f_text,        \* format_timestamp: returned string
    f_pc,          \* format_timestamp: "call" before, "done" after
    x_pc,          \* extract-youtube-ids.py: position in main
    x_file,        \* extract-youtube-ids.py: the contents that
                   \* scripts/ict-video-list.json has had, oldest first
    x_video_list,  \* extract-youtube-ids.py: video_list
    x_next,        \* extract-youtube-ids.py: index of the next key of PLAYLISTS
    x_log          \* extract-youtube-ids.py: what each extraction returned

vars == <<pc, video_id, max_retries, attempt, result, raised, upstream, rotlog,
          settles, cooldowns, script, argv, main_pc, grouped, stdout, exit_code,
          g_segments, g_threshold, g_groups, g_pc, f_seconds, f_text, f_pc,
          x_pc, x_file, x_video_list, x_next, x_log>>

torVars == <<pc, video_id, max_retries, attempt, result, raised, upstream,
             rotlog, settles, cooldowns>>

cliVars == <<script, argv, main_pc, grouped, stdout, exit_code>>

groupVars == <<g_segments, g_threshold, g_groups, g_pc>>

fmtVars == <<f_seconds, f_text, f_pc>>

listVars == <<x_pc, x_file, x_video_list, x_next, x_log>>

sideVars == <<fmtVars, listVars>>

-----------------------------------------------------------------------------
(* Bounds of the model *)

\* largest max_retries a call is given
MaxRetries == 4

\* longest segment list handed to group_by_pauses
MaxLen == 3

\* latest start of a segment handed to group_by_pauses, in seconds
MaxStart == 2

\* longest duration of a segment handed to group_by_pauses, in seconds
MaxDuration == 1

\* the largest whole number of seconds given to format_timestamp, besides a
\* few values with hours of two and three digits
MaxSeconds == 7325

\* most entries in one playlist answer of yt-dlp
MaxEntries == 2

-----------------------------------------------------------------------------
(* Strings *)

UpperChars == <<"A","B","C","D","E","F","G","H","I","J","K","L","M",
                "N","O","P","Q","R","S","T","U","V","W","X","Y","Z">>

LowerChars == <<"a","b","c","d","e","f","g","h","i","j","k","l","m",
                "n","o","p","q","r","s","t","u","v","w","x","y","z">>

DigitChars == <<"0","1","2","3","4","5","6","7","8","9">>

\* str.lower() on one character
LowerChar(c) ==
    IF \E i \in 1..26 : UpperChars[i] = c
    THEN LowerChars[CHOOSE i \in 1..26 : UpperChars[i] = c]
    ELSE c

\* str.lower()
Lower(s) == [i \in 1..Len(s) |-> LowerChar(s[i])]

\* `sub in s`
Contains(sub, s) ==
    \E i \in 0..(Len(s) - Len(sub)) : SubSeq(s, i + 1, i + Len(sub)) = sub

\* " ".join(texts)
RECURSIVE Join(_)
Join(texts) ==
    IF Len(texts) = 0 THEN <<>>
    ELSE IF Len(texts) = 1 THEN texts[1]
    ELSE texts[1] \o <<" ">> \o Join(Tail(texts))

\* str(n) for an integer n >= 0
RECURSIVE Digits(_)
Digits(n) ==
    IF n < 10 THEN <<DigitChars[n + 1]>>
    ELSE Digits(n \div 10) \o <<DigitChars[(n % 10) + 1]>>

\* f"{n:02d}" for an integer n >= 0
Pad2(n) == IF n < 10 THEN <<"0">> \o Digits(n) ELSE Digits(n)

-----------------------------------------------------------------------------
(* format_timestamp and group_by_pauses (the same text in both scripts) *)

\* lines 89-91 with the minutes of the hours form left unpadded
format_timestamp_unpadded(seconds) ==
    LET hours   == seconds \div 3600
        minutes == (seconds % 3600) \div 60
        secs    == seconds % 60
    IN  IF hours > 0
        THEN Digits(hours) \o <<":">> \o Digits(minutes) \o <<":">> \o Pad2(secs)
        ELSE Digits(minutes) \o <<":">> \o Pad2(secs)

format_timestamp(seconds) ==
    LET hours   == seconds \div 3600
        minutes == (seconds % 3600) \div 60
        secs    == seconds % 60
    IN  IF hours > 0
        THEN Digits(hours) \o <<":">> \o Pad2(minutes) \o <<":">> \o Pad2(secs)
        ELSE Digits(minutes) \o <<":">> \o Pad2(secs)

\* the open group seeded with the start of a segment and not with its text
OpenGroupUnseeded(seg) == [start |-> seg.start, texts |-> <<>>]

\* the open group {"start", "texts"} seeded with one segment
OpenGroup(seg) == [start |-> seg.start, texts |-> <<seg.text>>]

\* closing a group: join the texts, stamp the timestamp, drop "texts"
CloseGroup(current_group) ==
    [start     |-> current_group.start,
     text      |-> Join(current_group.texts),
     timestamp |-> format_timestamp(current_group.start)]

\* the gap of lines 108-109 with the operands of line 109 exchanged
GapExchanged(segments, i) ==
    LET prev     == segments[i - 1]
        curr     == segments[i]
        prev_end == prev.start + prev.duration
    IN  prev_end - curr.start

\* lines 105-109: the gap between segments[i-1] and segments[i]
Gap(segments, i) ==
    LET prev     == segments[i - 1]
        curr     == segments[i]
        prev_end == prev.start + prev.duration
    IN  curr.start - prev_end

\* the loop of lines 107-124 with `gap > pause_threshold` at line 111
RECURSIVE GroupLoopStrict(_, _, _, _, _)
GroupLoopStrict(segments, pause_threshold, i, groups, current_group) ==
    IF i > Len(segments)
    THEN Append(groups, CloseGroup(current_group))
    ELSE IF Gap(segments, i) > pause_threshold
         THEN GroupLoopStrict(segments, pause_threshold, i + 1,
                              Append(groups, CloseGroup(current_group)),
                              OpenGroup(segments[i]))
         ELSE GroupLoopStrict(segments, pause_threshold, i + 1, groups,
                              [current_group EXCEPT
                                  !.texts = Append(@, segments[i].text)])

\* the loop `for i in range(1, len(segments))`, i counted from 1 here, and the
\* closing of the final group after it
RECURSIVE GroupLoop(_, _, _, _, _)
GroupLoop(segments, pause_threshold, i, groups, current_group) ==
    IF i > Len(segments)
    THEN Append(groups, CloseGroup(current_group))
    ELSE IF Gap(segments, i) >= pause_threshold
         THEN GroupLoop(segments, pause_threshold, i + 1,
                        Append(groups, CloseGroup(current_group)),
                        OpenGroup(segments[i]))
         ELSE GroupLoop(segments, pause_threshold, i + 1, groups,
                        [current_group EXCEPT
                            !.texts = Append(@, segments[i].text)])

group_by_pauses(segments, pause_threshold) ==
    IF Len(segments) = 0 THEN <<>>
    ELSE GroupLoop(segments, pause_threshold, 2, <<>>, OpenGroup(segments[1]))

\* the default value of pause_threshold
DefaultPauseThreshold == 2

-----------------------------------------------------------------------------
(* The upstream provider and its answers *)

Seg(t, s, d) == [text |-> t, start |-> s, duration |-> d]

\* transcripts the provider may deliver
ProviderTranscripts ==
    { <<>>,
      <<Seg(<<"a">>, 0, 1)>>,
      <<Seg(<<"a">>, 0, 1), Seg(<<"b">>, 1, 1), Seg(<<"c">>, 10, 1)>>,
      <<Seg(<<"h","i">>, 0, 3), Seg(<<"y","o">>, 2, 1), Seg(<<"o","k">>, 5, 2)>> }

Msg429     == <<"H","T","T","P"," ","4","2","9">>
MsgBlocked == <<"I","P"," ","B","l","o","c","k","e","d">>
MsgCould   == <<"C","o","u","l","d"," ","n","o","t"," ",
                "r","e","t","r","i","e","v","e">>
MsgNoVideo == <<"N","o"," ","v","i","d","e","o">>
MsgTimeout == <<"t","i","m","e","d"," ","o","u","t">>

\* messages of the exceptions the provider may raise
ErrorMessages == {Msg429, MsgBlocked, MsgCould, MsgNoVideo, MsgTimeout}

\* one answer of api.fetch: a transcript, or an Exception with a message
ProviderAnswers ==
    [ok : {TRUE}, segments : ProviderTranscripts] \cup
    [ok : {FALSE}, msg : ErrorMessages]

VideoIds == { <<"d","Q","w","4","w","9","W","g","X","c","Q">> }

-----------------------------------------------------------------------------
(* extract_video_id *)

IdChars ==
    { UpperChars[i] : i \in 1..26 } \cup { LowerChars[i] : i \in 1..26 } \cup
    { DigitChars[i] : i \in 1..10 } \cup { "_", "-" }

\* eleven characters of [a-zA-Z0-9_-] from position p on
ElevenIdCharsAt(s, p) ==
    /\ p + 10 <= Len(s)
    /\ \A k \in 0..10 : s[p + k] \in IdChars

\* line 22: re.match(r'^[a-zA-Z0-9_-]{11}$', s); `$` matches at the end of
\* the string and also before a line feed that ends it
MatchesWholeId(s) ==
    /\ ElevenIdCharsAt(s, 1)
    /\ \/ Len(s) = 11
       \/ Len(s) = 12 /\ s[12] = "\n"

\* the alternatives before the capturing group in the patterns of lines 27-29
Patterns ==
    << { <<"v","=">>, <<"/","v","/">>,
         <<"y","o","u","t","u",".","b","e","/">> },
       { <<"e","m","b","e","d","/">> },
       { <<"s","h","o","r","t","s","/">> } >>

\* one of the alternatives, then eleven identifier characters, from position p
PatternMatchesAt(s, prefixes, p) ==
    \E pre \in prefixes :
        /\ p + Len(pre) - 1 <= Len(s)
        /\ SubSeq(s, p, p + Len(pre) - 1) = pre
        /\ ElevenIdCharsAt(s, p + Len(pre))

\* re.search(pattern, s): the leftmost match; group(1) is its eleven characters
Search(s, prefixes) ==
    IF \E p \in 1..Len(s) : PatternMatchesAt(s, prefixes, p)
    THEN LET p   == CHOOSE q \in 1..Len(s) :
                        /\ PatternMatchesAt(s, prefixes, q)
                        /\ \A r \in 1..(q - 1) : ~PatternMatchesAt(s, prefixes, r)
             pre == CHOOSE x \in prefixes :
                        /\ p + Len(x) - 1 <= Len(s)
                        /\ SubSeq(s, p, p + Len(x) - 1) = x
                        /\ ElevenIdCharsAt(s, p + Len(x))
         IN  [found |-> TRUE,
              group1 |-> SubSeq(s, p + Len(pre), p + Len(pre) + 10)]
    ELSE [found |-> FALSE, group1 |-> <<>>]

MsgCouldNotExtract ==
    <<"C","o","u","l","d"," ","n","o","t"," ","e","x","t","r","a","c","t",
      " ","v","i","d","e","o"," ","I","D"," ","f","r","o","m",":"," ">>

\* lines 19-37 ending in `return url_or_id` in place of the raise of line 37
extract_video_id_or_input(url_or_id) ==
    IF MatchesWholeId(url_or_id)
    THEN [ok |-> TRUE, id |-> url_or_id]
    ELSE IF \E n \in 1..3 : Search(url_or_id, Patterns[n]).found
    THEN LET n == CHOOSE m \in 1..3 :
                      /\ Search(url_or_id, Patterns[m]).found
                      /\ \A l \in 1..(m - 1) : ~Search(url_or_id, Patterns[l]).found
         IN  [ok |-> TRUE, id |-> Search(url_or_id, Patterns[n]).group1]
    ELSE [ok |-> TRUE, id |-> url_or_id]

\* lines 19-37: the identifier returned, or the ValueError raised
extract_video_id(url_or_id) ==
    IF MatchesWholeId(url_or_id)
    THEN [ok |-> TRUE, id |-> url_or_id]
    ELSE IF \E n \in 1..3 : Search(url_or_id, Patterns[n]).found
    THEN LET n == CHOOSE m \in 1..3 :
                      /\ Search(url_or_id, Patterns[m]).found
                      /\ \A l \in 1..(m - 1) : ~Search(url_or_id, Patterns[l]).found
         IN  [ok |-> TRUE, id |-> Search(url_or_id, Patterns[n]).group1]
    ELSE [ok |-> FALSE, msg |-> MsgCouldNotExtract \o url_or_id]

-----------------------------------------------------------------------------
(* The command lines *)

\* a canonical identifier
RefId ==
    <<"d","Q","w","4","w","9","W","g","X","c","Q">>

\* the short-link form
RefShortLink ==
    <<"h","t","t","p","s",":","/","/","y","o","u","t","u",".","b","e","/",
      "d","Q","w","4","w","9","W","g","X","c","Q">>

\* the query-parameter form, with a further parameter
RefWatch ==
    <<"y","o","u","t","u","b","e",".","c","o","m","/","w","a","t","c","h",
      "?","v","=","d","Q","w","4","w","9","W","g","X","c","Q","&","t","=",
      "9">>

\* the embed form
RefEmbed ==
    <<"y","o","u","t","u","b","e",".","c","o","m","/","e","m","b","e","d",
      "/","d","Q","w","4","w","9","W","g","X","c","Q">>

\* the short-form-video form
RefShorts ==
    <<"y","o","u","t","u","b","e",".","c","o","m","/","s","h","o","r","t",
      "s","/","d","Q","w","4","w","9","W","g","X","c","Q">>

\* no known shape
RefInvalid ==
    <<"n","o","t"," ","a"," ","v","a","l","i","d"," ","r","e","f">>

\* twelve identifier characters: no known shape
RefTooLong ==
    <<"d","Q","w","4","w","9","W","g","X","c","Q","Q">>

\* a canonical identifier followed by a line feed
RefIdNewline ==
    <<"d","Q","w","4","w","9","W","g","X","c","Q","\n">>

\* the flag of transcript.py
FlagGrouped ==
    <<"-","-","g","r","o","u","p","e","d">>

References ==
    { RefId, RefShortLink, RefWatch, RefEmbed, RefShorts, RefInvalid,
      RefTooLong, RefIdNewline }

\* sys.argv[1:] of transcript_tor.py
TorCommandLines == { <<>> } \cup { <<r>> : r \in {RefId, RefInvalid} }

\* sys.argv[1:] of transcript.py
PlainCommandLines ==
    { <<>>, <<FlagGrouped>> } \cup { <<r>> : r \in References } \cup
    { <<r, FlagGrouped>> : r \in References }

-----------------------------------------------------------------------------
(* fetch_transcript_via_tor *)

\* the condition of line 71
IsRateLimit(error_msg) ==
    \/ Contains(<<"4","2","9">>, error_msg)
    \/ Contains(<<"b","l","o","c","k","e","d">>, Lower(error_msg))
    \/ Contains(<<"c","o","u","l","d"," ","n","o","t"," ",
                  "r","e","t","r","i","e","v","e">>, Lower(error_msg))

\* line 73 with the budget cut one attempt short
BudgetLeftShort(att, max) == att < max - 2

\* line 73 comparing with max_retries itself
BudgetLeftAlways(att, max) == att < max

\* the condition of line 73
BudgetLeft(att, max) == att < max - 1

\* the record of lines 58-67
SuccessRecord(vid, segments) ==
    [videoId         |-> vid,
     language        |-> <<"e","n">>,
     segments        |-> segments,
     groupedSegments |-> group_by_pauses(segments, DefaultPauseThreshold),
     fullText        |-> Join([i \in 1..Len(segments) |-> segments[i].text])]

\* the record of line 79
ErrorRecord(vid, error_msg) == [videoId |-> vid, error |-> error_msg]

\* the record of line 81
AllRetriesFailed(vid) ==
    [videoId |-> vid,
     error   |-> <<"A","l","l"," ","r","e","t","r","i","e","s"," ",
                   "f","a","i","l","e","d">>]

NoRecord == [k \in {} |-> 0]

\* the default value of max_retries
DefaultMaxRetries == 3

\* nothing retrieved, nothing printed yet
Fresh ==
    /\ attempt = 0
    /\ result = NoRecord
    /\ raised = FALSE
    /\ upstream = <<>>
    /\ rotlog = <<>>
    /\ settles = 0
    /\ cooldowns = 0
    /\ grouped = FALSE
    /\ stdout = <<>>
    /\ exit_code = -1

\* a caller about to run fetch_transcript_via_tor(video_id, max_retries); the
\* function does not check max_retries, so 0 and -1 are among the values
InitFetch ==
    /\ script = "fetch"
    /\ argv = <<>>
    /\ main_pc = "none"
    /\ pc = "loop"
    /\ video_id \in VideoIds
    /\ max_retries \in (-1)..MaxRetries

\* a process about to run main of transcript_tor.py or of transcript.py
InitMain ==
    /\ \/ script = "tor" /\ argv \in TorCommandLines
       \/ script = "plain" /\ argv \in PlainCommandLines
    /\ main_pc = "start"
    /\ pc = "idle"
    /\ video_id = <<>>
    /\ max_retries = 0

IdleGroup ==
    /\ g_segments = <<>>
    /\ g_threshold = DefaultPauseThreshold
    /\ g_groups = <<>>
    /\ g_pc = "idle"

IdleFormat ==
    /\ f_seconds = 0
    /\ f_text = <<>>
    /\ f_pc = "idle"

IdleList ==
    /\ x_pc = "idle"
    /\ x_file = <<>>
    /\ x_video_list = <<>>
    /\ x_next = 1
    /\ x_log = <<>>

Init == Fresh /\ (InitFetch \/ InitMain) /\ IdleGroup /\ IdleFormat /\ IdleList

\* line 38 looping over range(max_retries + 1)
LoopHeadOneMore ==
    /\ pc = "loop"
    /\ IF attempt <= max_retries
       THEN /\ pc' = "fetch"
            /\ UNCHANGED result
       ELSE /\ pc' = "done"
            /\ result' = AllRetriesFailed(video_id)
    /\ UNCHANGED <<video_id, max_retries, attempt, raised, upstream, rotlog,
                   settles, cooldowns>>
    /\ UNCHANGED groupVars
    /\ UNCHANGED sideVars
    /\ UNCHANGED cliVars

\* line 38: the head of `for attempt in range(max_retries)`; line 81 when the
\* range is used up
LoopHead ==
    /\ pc = "loop"
    /\ IF attempt < max_retries
       THEN /\ pc' = "fetch"
            /\ UNCHANGED result
       ELSE /\ pc' = "done"
            /\ result' = AllRetriesFailed(video_id)
    /\ UNCHANGED <<video_id, max_retries, attempt, raised, upstream, rotlog,
                   settles, cooldowns>>
    /\ UNCHANGED groupVars
    /\ UNCHANGED sideVars
    /\ UNCHANGED cliVars

\* lines 39-67: the upstream call answers with a transcript
FetchSucceeds ==
    /\ pc = "fetch"
    /\ \E a \in ProviderAnswers :
          /\ a.ok
          /\ upstream' = Append(upstream, a)
          /\ result' = SuccessRecord(video_id, a.segments)
    /\ pc' = "done"
    /\ UNCHANGED <<video_id, max_retries, attempt, raised, rotlog, settles,
                   cooldowns>>
    /\ UNCHANGED groupVars
    /\ UNCHANGED sideVars
    /\ UNCHANGED cliVars

\* lines 69-79 without the test of line 71: every failure is retried
FetchFailsRetryAny ==
    /\ pc = "fetch"
    /\ \E a \in ProviderAnswers :
          /\ ~a.ok
          /\ upstream' = Append(upstream, a)
          /\ IF BudgetLeft(attempt, max_retries)
             THEN /\ pc' = "rotate"
                  /\ UNCHANGED result
             ELSE /\ pc' = "done"
                  /\ result' = ErrorRecord(video_id, a.msg)
    /\ UNCHANGED <<video_id, max_retries, attempt, raised, rotlog, settles,
                   cooldowns>>
    /\ UNCHANGED groupVars
    /\ UNCHANGED sideVars
    /\ UNCHANGED cliVars

\* lines 47, 69-79: the upstream call raises an Exception, which line 69
\* catches; the retry decision of lines 71-77 or the record of line 79
FetchFails ==
    /\ pc = "fetch"
    /\ \E a \in ProviderAnswers :
          /\ ~a.ok
          /\ upstream' = Append(upstream, a)
          /\ IF IsRateLimit(a.msg) /\ BudgetLeft(attempt, max_retries)
             THEN /\ pc' = "rotate"
                  /\ UNCHANGED result
             ELSE /\ pc' = "done"
                  /\ result' = ErrorRecord(video_id, a.msg)
    /\ UNCHANGED <<video_id, max_retries, attempt, raised, rotlog, settles,
                   cooldowns>>
    /\ UNCHANGED groupVars
    /\ UNCHANGED sideVars
    /\ UNCHANGED cliVars

\* get_new_tor_identity with its try/except left out: a failed control
\* connection leaves the function as a fault
TorIdentityUncaught(connected) ==
    [returns |-> connected, faults |-> ~connected, slept |-> connected]

\* get_new_tor_identity, lines 21-33: given whether the control connection and
\* its sends worked, the value returned, whether a fault leaves the function
\* (the bare except catches every one) and whether time.sleep(5) was reached
TorIdentity(connected) ==
    [returns |-> connected, faults |-> FALSE, slept |-> connected]

\* line 75 with the retry given up when the rotation did not work
RotateAbortOnFailure ==
    /\ pc = "rotate"
    /\ \E connected \in BOOLEAN :
          LET r == TorIdentity(connected) IN
          /\ settles' = settles + (IF r.slept THEN 1 ELSE 0)
          /\ rotlog' = Append(rotlog, connected)
          /\ IF r.returns
             THEN /\ pc' = "cooldown"
                  /\ UNCHANGED result
             ELSE /\ pc' = "done"
                  /\ result' = ErrorRecord(video_id, upstream[Len(upstream)].msg)
    /\ UNCHANGED <<video_id, max_retries, attempt, raised, upstream, cooldowns>>
    /\ UNCHANGED groupVars
    /\ UNCHANGED sideVars
    /\ UNCHANGED cliVars

\* line 75: the rotation request; its return value is not looked at, and a
\* fault leaving it would leave the except block and the function
Rotate ==
    /\ pc = "rotate"
    /\ \E connected \in BOOLEAN :
          LET r == TorIdentity(connected) IN
          /\ settles' = settles + (IF r.slept THEN 1 ELSE 0)
          /\ rotlog' = Append(rotlog, connected)
          /\ IF r.faults
             THEN /\ raised' = TRUE
                  /\ pc' = "done"
             ELSE /\ pc' = "cooldown"
                  /\ UNCHANGED raised
    /\ UNCHANGED <<video_id, max_retries, attempt, result, upstream, cooldowns>>
    /\ UNCHANGED groupVars
    /\ UNCHANGED sideVars
    /\ UNCHANGED cliVars

\* line 77 reached without the wait of line 76
CooldownSkipped ==
    /\ pc = "cooldown"
    /\ attempt' = attempt + 1
    /\ pc' = "loop"
    /\ UNCHANGED <<video_id, max_retries, result, raised, upstream, rotlog,
                   settles, cooldowns>>
    /\ UNCHANGED groupVars
    /\ UNCHANGED sideVars
    /\ UNCHANGED cliVars

\* lines 76-77: time.sleep(2); continue
Cooldown ==
    /\ pc = "cooldown"
    /\ cooldowns' = cooldowns + 1
    /\ attempt' = attempt + 1
    /\ pc' = "loop"
    /\ UNCHANGED <<video_id, max_retries, result, raised, upstream, rotlog,
                   settles>>
    /\ UNCHANGED groupVars
    /\ UNCHANGED sideVars
    /\ UNCHANGED cliVars

-----------------------------------------------------------------------------
(* main of transcript_tor.py *)

MsgUsageTor ==
    <<"U","s","a","g","e",":"," ","p","y","t","h","o","n"," ","t","r","a",
      "n","s","c","r","i","p","t","_","t","o","r",".","p","y"," ","<","v",
      "i","d","e","o","_","i","d",">">>

\* lines 133-138: the usage error, or the call of fetch_transcript_via_tor
\* with the default max_retries
TorMain ==
    /\ script = "tor"
    /\ main_pc = "start"
    /\ IF Len(argv) < 1
       THEN /\ stdout' = Append(stdout, [error |-> MsgUsageTor])
            /\ exit_code' = 1
            /\ main_pc' = "exit"
            /\ UNCHANGED <<pc, video_id, max_retries>>
       ELSE /\ video_id' = argv[1]
            /\ max_retries' = DefaultMaxRetries
            /\ pc' = "loop"
            /\ main_pc' = "retrieving"
            /\ UNCHANGED <<stdout, exit_code>>
    /\ UNCHANGED <<attempt, result, raised, upstream, rotlog, settles, cooldowns,
                   script, argv, grouped>>
    /\ UNCHANGED groupVars
    /\ UNCHANGED sideVars

\* line 139, and the end of the process
TorMainPrint ==
    /\ script = "tor"
    /\ main_pc = "retrieving"
    /\ pc = "done"
    /\ ~raised
    /\ stdout' = Append(stdout, result)
    /\ exit_code' = 0
    /\ main_pc' = "exit"
    /\ UNCHANGED <<script, argv, grouped>>
    /\ UNCHANGED torVars
    /\ UNCHANGED groupVars
    /\ UNCHANGED sideVars

-----------------------------------------------------------------------------
(* get_transcript and main of transcript.py *)

MsgUsagePlain ==
    <<"U","s","a","g","e",":"," ","p","y","t","h","o","n"," ","t","r","a",
      "n","s","c","r","i","p","t",".","p","y"," ","<","v","i","d","e","o",
      "_","i","d","_","o","r","_","u","r","l",">"," ","[","-","-","g","r",
      "o","u","p","e","d","]">>

\* the record of lines 78-90
PlainSuccessRecord(vid, segments) ==
    [videoId  |-> vid,
     language |-> <<"e","n">>,
     segments |-> segments,
     fullText |-> Join([i \in 1..Len(segments) |-> segments[i].text])]

\* a failure record that also carries an empty segments list
PlainErrorRecordWithSegments(vid, error_msg) ==
    [videoId |-> vid, error |-> error_msg, segments |-> <<>>]

\* the record of lines 93-96
PlainErrorRecord(vid, error_msg) == [videoId |-> vid, error |-> error_msg]

\* lines 157-168: the usage error, the ValueError of extract_video_id caught
\* at line 175, or the call of get_transcript
PlainMain ==
    /\ script = "plain"
    /\ main_pc = "start"
    /\ IF Len(argv) < 1
       THEN /\ stdout' = Append(stdout, [error |-> MsgUsagePlain])
            /\ exit_code' = 1
            /\ main_pc' = "exit"
            /\ UNCHANGED <<pc, video_id, grouped>>
       ELSE LET video_input == argv[1]
                extracted   == extract_video_id(video_input)
            IN  /\ grouped' = (\E k \in 1..Len(argv) : argv[k] = FlagGrouped)
                /\ IF extracted.ok
                   THEN /\ video_id' = extracted.id
                        /\ pc' = "plain_fetch"
                        /\ main_pc' = "retrieving"
                        /\ UNCHANGED <<stdout, exit_code>>
                   ELSE /\ stdout' = Append(stdout, [error |-> extracted.msg])
                        /\ exit_code' = 1
                        /\ main_pc' = "exit"
                        /\ UNCHANGED <<pc, video_id>>
    /\ UNCHANGED <<max_retries, attempt, result, raised, upstream, rotlog,
                   settles, cooldowns, script, argv>>
    /\ UNCHANGED groupVars
    /\ UNCHANGED sideVars

\* lines 57-90: the upstream call answers with a transcript
GetTranscriptSucceeds ==
    /\ pc = "plain_fetch"
    /\ \E a \in ProviderAnswers :
          /\ a.ok
          /\ upstream' = Append(upstream, a)
          /\ result' = PlainSuccessRecord(video_id, a.segments)
    /\ pc' = "done"
    /\ UNCHANGED <<video_id, max_retries, attempt, raised, rotlog, settles,
                   cooldowns>>
    /\ UNCHANGED groupVars
    /\ UNCHANGED sideVars
    /\ UNCHANGED cliVars

\* lines 73, 92-96: the upstream call raises an Exception
GetTranscriptFails ==
    /\ pc = "plain_fetch"
    /\ \E a \in ProviderAnswers :
          /\ ~a.ok
          /\ upstream' = Append(upstream, a)
          /\ result' = PlainErrorRecord(video_id, a.msg)
    /\ pc' = "done"
    /\ UNCHANGED <<video_id, max_retries, attempt, raised, rotlog, settles,
                   cooldowns>>
    /\ UNCHANGED groupVars
    /\ UNCHANGED sideVars
    /\ UNCHANGED cliVars

\* lines 170-171 without the test of the flag
WithGroupsAlways(record, want_groups) ==
    IF "error" \notin DOMAIN record
    THEN [k \in DOMAIN record \cup {"grouped_segments"} |->
             IF k = "grouped_segments"
             THEN group_by_pauses(record.segments, DefaultPauseThreshold)
             ELSE record[k]]
    ELSE record

\* lines 170-171: the record with "grouped_segments" added when asked for
WithGroups(record, want_groups) ==
    IF "error" \notin DOMAIN record /\ want_groups
    THEN [k \in DOMAIN record \cup {"grouped_segments"} |->
             IF k = "grouped_segments"
             THEN group_by_pauses(record.segments, DefaultPauseThreshold)
             ELSE record[k]]
    ELSE record

\* lines 170-173 with sys.exit(1) after an error payload was printed
PlainMainPrintExitOnError ==
    /\ script = "plain"
    /\ main_pc = "retrieving"
    /\ pc = "done"
    /\ stdout' = Append(stdout, WithGroups(result, grouped))
    /\ exit_code' = (IF "error" \in DOMAIN result THEN 1 ELSE 0)
    /\ main_pc' = "exit"
    /\ UNCHANGED <<script, argv, grouped>>
    /\ UNCHANGED torVars
    /\ UNCHANGED groupVars
    /\ UNCHANGED sideVars

\* lines 170-173, and the end of the process
PlainMainPrint ==
    /\ script = "plain"
    /\ main_pc = "retrieving"
    /\ pc = "done"
    /\ stdout' = Append(stdout, WithGroups(result, grouped))
    /\ exit_code' = 0
    /\ main_pc' = "exit"
    /\ UNCHANGED <<script, argv, grouped>>
    /\ UNCHANGED torVars
    /\ UNCHANGED groupVars
    /\ UNCHANGED sideVars

-----------------------------------------------------------------------------
(* group_by_pauses called on its own *)

GroupTexts == { <<"a">>, <<"b">> }

GroupUnits ==
    [text : GroupTexts, start : 0..MaxStart, duration : 0..MaxDuration]

RECURSIVE SeqsUpTo(_, _)
SeqsUpTo(S, n) ==
    IF n = 0 THEN { <<>> }
    ELSE LET shorter == SeqsUpTo(S, n - 1)
         IN  shorter \cup { Append(q, x) : q \in {r \in shorter : Len(r) = n - 1},
                                           x \in S }

\* pause thresholds tried; 2 is the default
PauseThresholds == { -1, 0, 2 }

IdleTor ==
    /\ Fresh
    /\ script = "none"
    /\ argv = <<>>
    /\ main_pc = "none"
    /\ pc = "idle"
    /\ video_id = <<>>
    /\ max_retries = 0

InitGroup ==
    /\ IdleTor
    /\ IdleFormat
    /\ IdleList
    /\ g_segments \in SeqsUpTo(GroupUnits, MaxLen)
    /\ g_threshold \in PauseThresholds
    /\ g_groups = <<>>
    /\ g_pc = "call"

\* one call group_by_pauses(segments, pause_threshold)
GroupCall ==
    /\ g_pc = "call"
    /\ g_groups' = group_by_pauses(g_segments, g_threshold)
    /\ g_pc' = "done"
    /\ UNCHANGED <<g_segments, g_threshold>>
    /\ UNCHANGED torVars
    /\ UNCHANGED cliVars
    /\ UNCHANGED sideVars

NextGroup == GroupCall

SpecGroup == InitGroup /\ [][NextGroup]_vars

-----------------------------------------------------------------------------
Next ==
    \/ LoopHead
    \/ FetchSucceeds
    \/ FetchFails
    \/ Rotate
    \/ Cooldown
    \/ TorMain
    \/ TorMainPrint
    \/ PlainMain
    \/ GetTranscriptSucceeds
    \/ GetTranscriptFails
    \/ PlainMainPrint

Spec == Init /\ [][Next]_vars

\* the steps of fetch_transcript_via_tor
TorStep == LoopHead \/ FetchSucceeds \/ FetchFails \/ Rotate \/ Cooldown

\* a call of fetch_transcript_via_tor runs on: every upstream call and every
\* control connection answers, and every wait ends
SpecFair == Spec /\ WF_vars(TorStep)

-----------------------------------------------------------------------------
(* Properties of fetch_transcript_via_tor *)

Calls == Len(upstream)

\* the positions inside a running call of fetch_transcript_via_tor
TorPositions == {"loop", "fetch", "rotate", "cooldown"}

Rotations == Len(rotlog)

IsRateLimitFailure(a) == ~a.ok /\ IsRateLimit(a.msg)

IsOtherFailure(a) == ~a.ok /\ ~IsRateLimit(a.msg)

\* the failures that open a retry: rate-limit-signatured, budget remaining
RotationsDue ==
    Cardinality({ i \in 1..Calls :
                    IsRateLimitFailure(upstream[i]) /\ i < max_retries })

\* C1: when the provider answers its first k calls (k < max_retries) with
\* rate-limit-signatured errors and call k+1 with a transcript, the call
\* returns the success record of that transcript after exactly k rotation
\* requests and k+1 upstream calls; it never gives up earlier, and never calls
\* the provider again after a transcript
C1_RateLimitedThenSuccess ==
    /\ \A i \in 1..Calls : upstream[i].ok => i = Calls /\ pc = "done"
    /\ (pc = "done" /\ max_retries >= 1) =>
          /\ Calls >= 1
          /\ (\A i \in 1..Calls : IsRateLimitFailure(upstream[i]))
                => Calls = max_retries
          /\ ( /\ upstream[Calls].ok
               /\ \A i \in 1..(Calls - 1) : IsRateLimitFailure(upstream[i]) )
                => /\ result = SuccessRecord(video_id, upstream[Calls].segments)
                   /\ Rotations = Calls - 1
                   /\ Calls - 1 < max_retries

C1_Witness ==
    /\ pc = "done"
    /\ max_retries = 3
    /\ Calls = 3
    /\ IsRateLimitFailure(upstream[1])
    /\ IsRateLimitFailure(upstream[2])
    /\ upstream[3].ok
    /\ Rotations = 2
    /\ "segments" \in DOMAIN result

\* C2: a failure whose message does not match the rate-limit signature ends
\* the retrieval at once, at whichever attempt and for every max_retries: the
\* failure record carrying that message is returned, and no rotation request
\* and no further upstream call follows it
C2_OtherFailureEndsRetrieval ==
    \A i \in 1..Calls :
        IsOtherFailure(upstream[i]) =>
            /\ i = Calls
            /\ pc = "done"
            /\ result = ErrorRecord(video_id, upstream[i].msg)
            /\ Rotations = i - 1
            /\ cooldowns = i - 1

C2_Witness ==
    /\ pc = "done"
    /\ max_retries = 3
    /\ Calls = 1
    /\ upstream[1] = [ok |-> FALSE, msg |-> MsgNoVideo]
    /\ Rotations = 0
    /\ result = ErrorRecord(video_id, MsgNoVideo)

\* C3: a failure, rate-limit-signatured or not, on the attempt whose number
\* equals max_retries ends the retrieval in the failure record carrying that
\* last error's message, with no rotation request for that failure; with
\* max_retries = 1 any failure returns the failure record after 0 rotations
C3_LastAttemptFailure ==
    (max_retries >= 1 /\ Calls = max_retries /\ ~upstream[Calls].ok) =>
        /\ pc = "done"
        /\ result = ErrorRecord(video_id, upstream[Calls].msg)
        /\ Rotations = max_retries - 1
        /\ cooldowns = max_retries - 1

C3_Witness ==
    /\ pc = "done"
    /\ max_retries = 1
    /\ Calls = 1
    /\ IsRateLimitFailure(upstream[1])
    /\ Rotations = 0
    /\ result = ErrorRecord(video_id, upstream[1].msg)

SuccessFields ==
    {"videoId", "language", "segments", "groupedSegments", "fullText"}

ErrorFields == {"videoId", "error"}

\* C4: whatever the provider answers and whatever becomes of the rotation
\* requests, no fault leaves fetch_transcript_via_tor, and what it returns is
\* a record of one of the two outcome shapes
C4_NeverRaises ==
    /\ ~raised
    /\ (script \in {"fetch", "tor"} /\ pc = "done") =>
          DOMAIN result \in {SuccessFields, ErrorFields}

C4_Witness ==
    /\ pc = "done"
    /\ ~raised
    /\ \E i \in 1..Rotations : ~rotlog[i]
    /\ \E i \in 1..Calls : IsOtherFailure(upstream[i])
    /\ DOMAIN result = ErrorFields

\* the fields that only a successful retrieval may carry
PayloadFields == {"segments", "groupedSegments", "grouped_segments", "fullText"}

\* a record of exactly one of the two outcome shapes
OneShape(record) ==
    \/ /\ "error" \in DOMAIN record
       /\ DOMAIN record \cap PayloadFields = {}
    \/ /\ "error" \notin DOMAIN record
       /\ {"segments", "fullText"} \subseteq DOMAIN record

\* C5: every record a retrieval returns (fetch_transcript_via_tor,
\* get_transcript) and every record a main prints, grouped or not, either has
\* an error field and none of segments, grouped segments and fullText, or has
\* segments and fullText and no error field
C5_ExactlyOneShape ==
    /\ pc = "done" => OneShape(result)
    /\ \A i \in 1..Len(stdout) : OneShape(stdout[i])

C5_Witness ==
    /\ script = "plain"
    /\ main_pc = "exit"
    /\ grouped
    /\ \E a \in ProviderAnswers : ~a.ok /\ upstream = <<a>>
    /\ Len(stdout) = 1
    /\ DOMAIN stdout[1] = {"videoId", "error"}

\* C6: one retrieval call always terminates, and it never makes more than
\* max_retries upstream calls (none when max_retries is below 0), whatever the
\* provider answers
C6_BoundedAndTerminates ==
    /\ [](script \in {"fetch", "tor"} =>
            Calls <= (IF max_retries >= 0 THEN max_retries ELSE 0))
    /\ (pc \in TorPositions) ~> (pc = "done")

C6_Witness ==
    /\ pc = "done"
    /\ max_retries = MaxRetries
    /\ Calls = max_retries
    /\ \A i \in 1..Calls : IsRateLimitFailure(upstream[i])

\* C7 as claimed: each rate-limit-signatured failure with budget remaining
\* brings exactly one rotation request and exactly one delay before the next
\* upstream call, and nothing else brings a rotation request or a delay
C7_OneDelayPerRotation ==
    pc \in {"loop", "fetch", "done"} =>
        /\ Rotations = RotationsDue
        /\ settles + cooldowns = RotationsDue

\* C7 amended: each rate-limit-signatured failure with budget remaining brings
\* exactly one rotation request and exactly one wait of line 76 before the
\* next upstream call; the rotation request waits once more itself (line 30)
\* exactly when its control connection worked; nothing else brings a rotation
\* request or a wait
C7_OneCooldownPerRotation ==
    /\ settles = Cardinality({ i \in 1..Rotations : rotlog[i] })
    /\ pc \in {"loop", "fetch", "done"} =>
          Rotations = RotationsDue /\ cooldowns = RotationsDue
    /\ pc = "rotate" =>
          Rotations = RotationsDue - 1 /\ cooldowns = RotationsDue - 1
    /\ pc = "cooldown" =>
          Rotations = RotationsDue /\ cooldowns = RotationsDue - 1

C7_Witness ==
    /\ pc = "fetch"
    /\ Calls = 2
    /\ Rotations = 2
    /\ cooldowns = 2
    /\ rotlog = <<TRUE, FALSE>>
    /\ settles = 1

\* what the call returns, read off the provider's answers alone
OutcomeOf(log) ==
    IF log[Len(log)].ok
    THEN SuccessRecord(video_id, log[Len(log)].segments)
    ELSE ErrorRecord(video_id, log[Len(log)].msg)

\* C8: a failed rotation request never aborts the retry: after the request,
\* worked or not, the cooldown is waited, the attempt counter goes up by one
\* and the next upstream call is made; what the call returns is decided by the
\* provider's answers alone
C8_RotationFailureDoesNotAbort ==
    [][ /\ pc = "rotate" => pc' = "cooldown" /\ ~raised'
        /\ pc = "cooldown" =>
              /\ pc' = "loop"
              /\ cooldowns' = cooldowns + 1
              /\ attempt' = attempt + 1
        /\ (pc = "loop" /\ attempt >= 1) => pc' = "fetch"
        /\ (pc' = "done" /\ max_retries >= 1) => result' = OutcomeOf(upstream')
      ]_vars

C8_Witness ==
    /\ pc = "done"
    /\ Calls = 3
    /\ rotlog = <<FALSE, FALSE>>
    /\ upstream[3].ok
    /\ result = SuccessRecord(video_id, upstream[3].segments)

-----------------------------------------------------------------------------
(* Properties of group_by_pauses *)

NumUnits == Len(g_segments)

\* the texts of units first..last joined with single spaces
JoinedTexts(first, last) ==
    Join([k \in 1..(last - first + 1) |-> g_segments[first + k - 1].text])

\* the last unit of the run that begins at unit b, when runs begin at `begins`
RunEnd(b, begins) ==
    IF \E s \in begins : s > b
    THEN (CHOOSE s \in begins :
              s > b /\ \A t \in begins : t > b => s <= t) - 1
    ELSE NumUnits

\* the position, among the runs, of the run that begins at unit b
RunIndex(b, begins) == Cardinality({ s \in begins : s <= b })

\* C9: the groups returned partition the input exactly: they are the
\* contiguous non-empty runs of some division of the units in input order,
\* every unit in exactly one run; the start of a group is the start of its
\* first unit and its text the single-space join of its units' texts in
\* order; no units give no groups, one unit gives one group
C9_GroupsPartitionInput ==
    g_pc = "done" =>
        /\ NumUnits = 0 => g_groups = <<>>
        /\ NumUnits = 1 => Len(g_groups) = 1
        /\ NumUnits >= 1 =>
              \E cuts \in SUBSET (2..NumUnits) :
                  LET begins == {1} \cup cuts IN
                  /\ Len(g_groups) = Cardinality(begins)
                  /\ \A b \in begins :
                        LET g == g_groups[RunIndex(b, begins)] IN
                        /\ g.start = g_segments[b].start
                        /\ g.text = JoinedTexts(b, RunEnd(b, begins))

C9_Witness ==
    /\ g_pc = "done"
    /\ NumUnits = 3
    /\ Len(g_groups) = 2
    /\ g_groups[1].text = <<"a", " ", "b">>
    /\ g_groups[2].text = <<"a">>
    /\ g_groups[2].start = g_segments[3].start

\* the gap before unit i as the specification defines it
GapBefore(i) ==
    g_segments[i].start - (g_segments[i - 1].start + g_segments[i - 1].duration)

\* the number of units joined in a group's text (no unit text of the model
\* is empty or holds a space)
UnitsIn(g) == 1 + Cardinality({ k \in 1..Len(g.text) : g.text[k] = " " })

RECURSIVE UnitsBefore(_)
UnitsBefore(j) ==
    IF j <= 1 THEN 0 ELSE UnitsBefore(j - 1) + UnitsIn(g_groups[j - 1])

\* units i-1 and i lie in the same returned group
SameGroup(i) ==
    \E j \in 1..Len(g_groups) :
        /\ UnitsBefore(j) < i - 1
        /\ i <= UnitsBefore(j) + UnitsIn(g_groups[j])

\* C10 as claimed: a negative gap between consecutive units never splits:
\* the two units always end up in the same group
C10_NegativeGapNeverSplits ==
    g_pc = "done" =>
        \A i \in 2..NumUnits : GapBefore(i) < 0 => SameGroup(i)

\* C10 amended: for every pause threshold that is not negative (the default
\* 2.0 included) a negative gap never splits; under a negative threshold a
\* negative gap splits exactly when it is at least the threshold
C10_NegativeGapSplitsOnlyBelowZeroThreshold ==
    g_pc = "done" =>
        \A i \in 2..NumUnits :
            GapBefore(i) < 0 =>
                /\ g_threshold >= 0 => SameGroup(i)
                /\ SameGroup(i) <=> GapBefore(i) < g_threshold

C10_Witness ==
    /\ g_pc = "done"
    /\ g_threshold = DefaultPauseThreshold
    /\ NumUnits = 3
    /\ GapBefore(2) = -2
    /\ SameGroup(2)
    /\ GapBefore(3) = 2
    /\ ~SameGroup(3)
    /\ Len(g_groups) = 2

-----------------------------------------------------------------------------
(* Properties of extract_video_id and of the command lines *)

\* transcript.py has taken its reference and extract_video_id has returned
Resolved == script = "plain" /\ main_pc \in {"retrieving", "exit"} /\ pc # "idle"

\* eleven characters, each of [A-Za-z0-9_-]
CanonicalShape(s) == Len(s) = 11 /\ \A i \in 1..Len(s) : s[i] \in IdChars

\* C11: whatever the reference, extract_video_id either fails with ValueError
\* or returns a string of exactly 11 characters, all of [A-Za-z0-9_-]
C11_ReturnsCanonicalOrFails ==
    Resolved => CanonicalShape(video_id)

\* the references of the model that have none of the known shapes
UnknownShapes == {RefInvalid, RefTooLong, FlagGrouped}

\* the run was given a reference of no known shape
GivenUnknownShape == Len(argv) >= 1 /\ argv[1] \in UnknownShapes

\* C12 as claimed: in each script that takes a reference, a reference of no
\* known shape is answered with a top-level error record and retrieval is
\* bypassed: no upstream call and no rotation request is made in that run
C12_UnknownShapeBypassesRetrieval ==
    (script \in {"tor", "plain"} /\ GivenUnknownShape) =>
        /\ Calls = 0
        /\ Rotations = 0
        /\ pc = "idle"
        /\ main_pc # "start" =>
              /\ main_pc = "exit"
              /\ Len(stdout) = 1
              /\ DOMAIN stdout[1] = {"error"}

\* C12 amended: transcript.py answers a reference of no known shape with the
\* top-level error record of extract_video_id's ValueError and makes no
\* upstream call and no rotation request; transcript_tor.py does not resolve
\* its argument: it hands it unchanged to fetch_transcript_via_tor
C12_OnlyPlainResolvesReference ==
    /\ (script = "plain" /\ GivenUnknownShape) =>
          /\ Calls = 0
          /\ Rotations = 0
          /\ pc = "idle"
          /\ main_pc # "start" =>
                /\ main_pc = "exit"
                /\ stdout = <<[error |-> MsgCouldNotExtract \o argv[1]]>>
    /\ (script = "tor" /\ Len(argv) >= 1 /\ main_pc # "start") =>
          /\ video_id = argv[1]
          /\ pc \in TorPositions \cup {"done"}

C12_Witness ==
    /\ script = "plain"
    /\ argv = <<RefInvalid, FlagGrouped>>
    /\ main_pc = "exit"
    /\ exit_code = 1
    /\ Calls = 0
    /\ stdout = <<[error |-> MsgCouldNotExtract \o RefInvalid]>>

\* a main has ended
Exited == main_pc = "exit"

Handed ==
    { stdout[i] : i \in 1..Len(stdout) }
        \cup (IF script = "fetch" /\ pc = "done" /\ ~raised THEN {result} ELSE {})

IsSuccessDocument(doc) == "error" \notin DOMAIN doc

HasGroups(doc) == DOMAIN doc \cap {"groupedSegments", "grouped_segments"} # {}

\* where the i-th text begins in a single-space join, counted from 0
RECURSIVE TextOffset(_, _)
TextOffset(texts, i) ==
    IF i = 1 THEN 0 ELSE TextOffset(texts, i - 1) + Len(texts[i - 1]) + 1

\* full is the texts in order with exactly one space between neighbours
IsSpaceJoin(full, texts) ==
    /\ Len(full) = (IF Len(texts) = 0 THEN 0
                    ELSE TextOffset(texts, Len(texts)) + Len(texts[Len(texts)]))
    /\ \A i \in 1..Len(texts) :
          /\ SubSeq(full, TextOffset(texts, i) + 1,
                    TextOffset(texts, i) + Len(texts[i])) = texts[i]
          /\ i > 1 => full[TextOffset(texts, i)] = " "

CarriesTranscript(doc) ==
    /\ {"language", "segments", "fullText"} \subseteq DOMAIN doc
    /\ IsSpaceJoin(doc.fullText, [i \in 1..Len(doc.segments) |-> doc.segments[i].text])

\* C14 as claimed: a successful record has the groups field only if grouped
\* output was requested; without the request it carries language, units and
\* fullText and no groups, fullText being the single-space join of the unit
\* texts in order
C14_GroupsOnlyOnRequest ==
    \A doc \in Handed :
        IsSuccessDocument(doc) =>
            /\ HasGroups(doc) => grouped
            /\ ~grouped => CarriesTranscript(doc) /\ ~HasGroups(doc)

\* C14 amended: the successful document of transcript.py has grouped_segments
\* exactly when --grouped was given; the successful record of
\* fetch_transcript_via_tor always has groupedSegments, there being no option
\* to leave it out; both carry language, units and fullText, fullText being
\* the single-space join of the unit texts in order
C14_GroupsOnRequestInPlainAlwaysInTor ==
    \A doc \in Handed :
        IsSuccessDocument(doc) =>
            /\ CarriesTranscript(doc)
            /\ script = "plain" =>
                  /\ "grouped_segments" \in DOMAIN doc <=> grouped
                  /\ "groupedSegments" \notin DOMAIN doc
            /\ script \in {"fetch", "tor"} =>
                  /\ "groupedSegments" \in DOMAIN doc
                  /\ "grouped_segments" \notin DOMAIN doc

C14_Witness ==
    /\ script = "plain"
    /\ Exited
    /\ ~grouped
    /\ Len(stdout) = 1
    /\ IsSuccessDocument(stdout[1])
    /\ Len(stdout[1].segments) >= 2
    /\ ~HasGroups(stdout[1])

\* C15: group_by_pauses puts a boundary between consecutive units i-1 and i
\* exactly when start[i] - (start[i-1] + duration[i-1]) >= pause_threshold,
\* the gap being taken from the unit just before and not from the first unit
\* of the group; so a non-empty input gives 1 plus the number of such i
\* groups, and a gap equal to the threshold splits
C15_BoundaryIffGapAtLeastThreshold ==
    g_pc = "done" =>
        /\ \A i \in 2..NumUnits :
              ~SameGroup(i) <=> GapBefore(i) >= g_threshold
        /\ NumUnits >= 1 =>
              Len(g_groups) =
                  1 + Cardinality({ i \in 2..NumUnits : GapBefore(i) >= g_threshold })

C15_Witness ==
    /\ g_pc = "done"
    /\ NumUnits = 3
    /\ g_threshold = DefaultPauseThreshold
    /\ GapBefore(2) = g_threshold
    /\ GapBefore(3) < g_threshold
    /\ Len(g_groups) = 2
    /\ g_groups[2].start = g_segments[2].start

\* ------------------------------------------------------------------------
\* format_timestamp called alone, and through group_by_pauses

FormatInputs == (0..MaxSeconds) \cup {36000, 86399, 360000}

\* two units, the first at f_seconds, with a gap below or at the default
\* threshold
FormatSegments(seconds) ==
    { <<Seg(<<"a">>, seconds, 0), Seg(<<"b">>, seconds + gap, 0)>> :
          gap \in {0, DefaultPauseThreshold} }

InitFormat ==
    /\ IdleTor
    /\ IdleList
    /\ f_seconds \in FormatInputs
    /\ f_text = <<>>
    /\ f_pc = "call"
    /\ g_segments \in FormatSegments(f_seconds)
    /\ g_threshold = DefaultPauseThreshold
    /\ g_groups = <<>>
    /\ g_pc = "call"

\* one call format_timestamp(seconds)
FormatCall ==
    /\ f_pc = "call"
    /\ f_text' = format_timestamp(f_seconds)
    /\ f_pc' = "done"
    /\ UNCHANGED f_seconds
    /\ UNCHANGED torVars
    /\ UNCHANGED cliVars
    /\ UNCHANGED groupVars
    /\ UNCHANGED listVars

NextFormat ==
    \/ FormatCall
    \/ GroupCall

SpecFormat == InitFormat /\ [][NextFormat]_vars

\* the number a string of decimal digits stands for
DigitValue(c) == CHOOSE d \in 0..9 : DigitChars[d + 1] = c

RECURSIVE NumberOf(_)
NumberOf(digits) ==
    IF Len(digits) = 0 THEN 0
    ELSE 10 * NumberOf(SubSeq(digits, 1, Len(digits) - 1))
             + DigitValue(digits[Len(digits)])

IsNumeral(field) ==
    Len(field) >= 1 /\ \A i \in 1..Len(field) : field[i] \in
        { DigitChars[d] : d \in 1..10 }

Unpadded(field) == IsNumeral(field) /\ (Len(field) = 1 \/ field[1] # "0")

TwoDigits(field) == IsNumeral(field) /\ Len(field) = 2

ColonsOf(t) == { i \in 1..Len(t) : t[i] = ":" }

\* t reads M:SS and stands for s seconds
RendersMinutes(t, s) ==
    \E p \in ColonsOf(t) :
        LET m  == SubSeq(t, 1, p - 1)
            ss == SubSeq(t, p + 1, Len(t))
        IN  /\ ColonsOf(t) = {p}
            /\ Unpadded(m)
            /\ TwoDigits(ss)
            /\ NumberOf(ss) <= 59
            /\ NumberOf(m) * 60 + NumberOf(ss) = s

\* t reads H:MM:SS and stands for s seconds
RendersHours(t, s) ==
    \E p, q \in ColonsOf(t) :
        LET h  == SubSeq(t, 1, p - 1)
            mm == SubSeq(t, p + 1, q - 1)
            ss == SubSeq(t, q + 1, Len(t))
        IN  /\ p < q
            /\ ColonsOf(t) = {p, q}
            /\ Unpadded(h)
            /\ TwoDigits(mm)
            /\ TwoDigits(ss)
            /\ NumberOf(mm) <= 59
            /\ NumberOf(ss) <= 59
            /\ NumberOf(h) * 3600 + NumberOf(mm) * 60 + NumberOf(ss) = s

Renders(t, s) == IF s >= 3600 THEN RendersHours(t, s) ELSE RendersMinutes(t, s)

InCall == script \in {"fetch", "tor"} /\ pc \in TorPositions \cup {"done"}

\* C17: when a call of fetch_transcript_via_tor with max_retries >= 1 has
\* returned, the upstream calls made are one more than the rotation requests
\* issued and the rotation requests are at most max_retries - 1; during the
\* call every rotation request is followed by exactly one more upstream call
\* before the next rotation request or the return
C17_CallsAreRotationsPlusOne ==
    (InCall /\ max_retries >= 1) =>
        /\ pc = "done" =>
              /\ Calls = Rotations + 1
              /\ Rotations <= max_retries - 1
        /\ pc = "rotate" => Calls = Rotations + 1
        /\ pc \in {"cooldown", "loop", "fetch"} => Calls = Rotations
        /\ pc \in {"cooldown", "loop"} => Rotations < max_retries
        /\ pc = "loop" => attempt < max_retries

C17_Witness ==
    /\ script = "fetch"
    /\ pc = "done"
    /\ max_retries = DefaultMaxRetries
    /\ Calls = 3
    /\ Rotations = 2
    /\ upstream[3].ok

\* C18: called with max_retries <= 0, fetch_transcript_via_tor makes no
\* upstream call and no rotation request and returns the failure record with
\* the error "All retries failed"; for every max_retries >= 1 that record is
\* never returned: a returned error is the message of the last upstream
\* failure
C18_FallbackOnlyWithoutAttempts ==
    InCall =>
        /\ max_retries <= 0 =>
              /\ Calls = 0
              /\ Rotations = 0
              /\ settles = 0 /\ cooldowns = 0
              /\ pc \in {"loop", "done"}
              /\ pc = "done" =>
                    /\ ~raised
                    /\ result = [videoId |-> video_id,
                                 error   |-> <<"A","l","l"," ",
                                               "r","e","t","r","i","e","s"," ",
                                               "f","a","i","l","e","d">>]
        /\ (max_retries >= 1 /\ pc = "done") =>
              /\ result # AllRetriesFailed(video_id)
              /\ "error" \in DOMAIN result =>
                    /\ Calls >= 1
                    /\ ~upstream[Calls].ok
                    /\ result.error = upstream[Calls].msg

C18_Witness ==
    /\ script = "fetch"
    /\ pc = "done"
    /\ max_retries = -1
    /\ Calls = 0
    /\ Rotations = 0
    /\ result = AllRetriesFailed(video_id)

\* the text fields of a list of groups, in order
GroupTextsOf(groups) == [j \in 1..Len(groups) |-> groups[j].text]

\* C19: in every successful record of fetch_transcript_via_tor with at least
\* one unit, the text fields of groupedSegments joined in order with single
\* spaces are exactly fullText, and the first group starts where the first
\* segment starts; segments is the provider's sequence, order and length
\* unchanged
C19_GroupsRejoinToFullText ==
    (InCall /\ pc = "done" /\ ~raised /\ IsSuccessDocument(result)) =>
        /\ Calls >= 1
        /\ upstream[Calls].ok
        /\ result.segments = upstream[Calls].segments
        /\ Len(result.segments) >= 1 =>
              /\ Len(result.groupedSegments) >= 1
              /\ IsSpaceJoin(result.fullText, GroupTextsOf(result.groupedSegments))
              /\ result.groupedSegments[1].start = result.segments[1].start

C19_Witness ==
    /\ script = "fetch"
    /\ pc = "done"
    /\ IsSuccessDocument(result)
    /\ Len(result.segments) = 3
    /\ Len(result.groupedSegments) = 2
    /\ result.groupedSegments[1].start = result.segments[1].start

-----------------------------------------------------------------------------
(* extract-youtube-ids.py *)

\* the keys of PLAYLISTS in the order of the dict, lines 17-30
PlaylistKeys == <<"if-i-could-go-back", "market-maker-series", "2022-mentorship">>

\* a playlist of the video list that PLAYLISTS does not name
OtherKey == "other-playlist"

FileKeys == { PlaylistKeys[i] : i \in 1..Len(PlaylistKeys) } \cup {OtherKey}

\* a videos list as the file holds it before the script has run
OldVideos ==
    << [id |-> "NEED_VIDEO_ID", title |-> <<"o","l","d">>] >>

\* one playlist of the file, with or without a videos list
PlaylistDatas ==
    { [name |-> "n"], [name |-> "n", videos |-> OldVideos] }

\* what json.load may return for scripts/ict-video-list.json: a document with
\* some playlists, or one with no "playlists" at all
Documents ==
    { [version |-> 1, playlists |-> p] :
          p \in UNION { [D -> PlaylistDatas] : D \in SUBSET FileKeys } }
        \cup { [version |-> 1] }

\* one entry of the "entries" of yt-dlp's answer: with id and title, with id
\* alone, or without id
Entries ==
    { [id |-> "abc", title |-> <<"T">>], [id |-> "abc"], [title |-> <<"T">>] }

\* what json.loads makes of the standard output of yt-dlp: nothing (not
\* JSON), an object without "entries", or an object with them
ParsedOutputs ==
    { [json |-> FALSE], [json |-> TRUE] }
        \cup { [json |-> TRUE, entries |-> es] : es \in SeqsUpTo(Entries, MaxEntries) }

\* how subprocess.run of lines 45-56 may end
SubprocessRuns ==
    { [timeout |-> TRUE], [timeout |-> FALSE, returncode |-> 1] }
        \cup { [timeout |-> FALSE, returncode |-> 0, stdout |-> o] :
                   o \in ParsedOutputs }

\* f"Episode {n}"
EpisodeTitle(n) == <<"E","p","i","s","o","d","e"," ">> \o Digits(n)

\* the loop of lines 65-66 over entries[i..]; a missing "id" is a KeyError,
\* caught at line 75
RECURSIVE CollectVideos(_, _, _)
CollectVideos(entries, i, videos) ==
    IF i > Len(entries) THEN videos
    ELSE IF "id" \notin DOMAIN entries[i] THEN <<>>
    ELSE CollectVideos(entries, i + 1,
             Append(videos,
                    [id    |-> entries[i].id,
                     title |-> IF "title" \in DOMAIN entries[i]
                               THEN entries[i].title
                               ELSE EpisodeTitle(Len(videos) + 1)]))

\* extract_playlist_videos, lines 42-77, given how the subprocess ended
extract_playlist_videos(run) ==
    IF run.timeout THEN <<>>
    ELSE IF run.returncode # 0 THEN <<>>
    ELSE IF ~run.stdout.json THEN <<>>
    ELSE IF "entries" \notin DOMAIN run.stdout THEN <<>>
    ELSE CollectVideos(run.stdout.entries, 1, <<>>)

\* playlist_data["videos"] = videos
SetVideos(playlist_data, videos) ==
    [f \in DOMAIN playlist_data \cup {"videos"} |->
        IF f = "videos" THEN videos ELSE playlist_data[f]]

\* lines 108-118 without the test of line 112: a playlist the list does not
\* have is created
UpdatePlaylistUnchecked(video_list, playlist_key, videos) ==
    IF videos # <<>>
    THEN [video_list EXCEPT !.playlists =
             [k \in DOMAIN @ \cup {playlist_key} |->
                 IF k = playlist_key
                 THEN IF k \in DOMAIN @ THEN SetVideos(@[k], videos)
                      ELSE [videos |-> videos]
                 ELSE @[k]]]
    ELSE video_list

\* lines 108-118
UpdatePlaylist(video_list, playlist_key, videos) ==
    IF videos # <<>>
    THEN IF playlist_key \in DOMAIN video_list.playlists
         THEN [video_list EXCEPT
                  !.playlists[playlist_key] = SetVideos(@, videos)]
         ELSE video_list
    ELSE video_list

InitExtract ==
    /\ IdleTor
    /\ IdleGroup
    /\ IdleFormat
    /\ x_pc = "check"
    /\ x_file \in { <<d>> : d \in Documents }
    /\ x_video_list = <<>>
    /\ x_next = 1
    /\ x_log = <<>>

\* lines 85-90: without yt-dlp the script ends with exit code 1
CheckYtdlp ==
    /\ x_pc = "check"
    /\ \E found \in BOOLEAN :
          x_pc' = (IF found THEN "load" ELSE "exit1")
    /\ UNCHANGED <<x_file, x_video_list, x_next, x_log>>
    /\ UNCHANGED torVars
    /\ UNCHANGED cliVars
    /\ UNCHANGED groupVars
    /\ UNCHANGED fmtVars

\* lines 96-98
LoadList ==
    /\ x_pc = "load"
    /\ x_video_list' = x_file[Len(x_file)]
    /\ x_pc' = "loop"
    /\ UNCHANGED <<x_file, x_next, x_log>>
    /\ UNCHANGED torVars
    /\ UNCHANGED cliVars
    /\ UNCHANGED groupVars
    /\ UNCHANGED fmtVars

\* lines 101-122: one pass of the loop over PLAYLISTS; video_list["playlists"]
\* at line 112 is a KeyError when the document has no playlists
ExtractPlaylist ==
    /\ x_pc = "loop"
    /\ \E run \in SubprocessRuns :
          LET videos == extract_playlist_videos(run) IN
          /\ x_log' = Append(x_log, videos)
          /\ IF videos # <<>> /\ "playlists" \notin DOMAIN x_video_list
             THEN /\ x_pc' = "fault"
                  /\ UNCHANGED <<x_video_list, x_next>>
             ELSE /\ x_video_list' =
                        UpdatePlaylist(x_video_list, PlaylistKeys[x_next], videos)
                  /\ x_next' = x_next + 1
                  /\ x_pc' = (IF x_next = Len(PlaylistKeys) THEN "save" ELSE "loop")
    /\ UNCHANGED x_file
    /\ UNCHANGED torVars
    /\ UNCHANGED cliVars
    /\ UNCHANGED groupVars
    /\ UNCHANGED fmtVars

\* lines 126-127
SaveList ==
    /\ x_pc = "save"
    /\ x_file' = Append(x_file, x_video_list)
    /\ x_pc' = "summary"
    /\ UNCHANGED <<x_video_list, x_next, x_log>>
    /\ UNCHANGED torVars
    /\ UNCHANGED cliVars
    /\ UNCHANGED groupVars
    /\ UNCHANGED fmtVars

\* lines 133-160: the summary only prints; video_list["playlists"] at line 136
\* is a KeyError when the document has no playlists
Summarize ==
    /\ x_pc = "summary"
    /\ x_pc' = (IF "playlists" \in DOMAIN x_video_list THEN "done"
                ELSE "fault_after_save")
    /\ UNCHANGED <<x_file, x_video_list, x_next, x_log>>
    /\ UNCHANGED torVars
    /\ UNCHANGED cliVars
    /\ UNCHANGED groupVars
    /\ UNCHANGED fmtVars

NextExtract ==
    \/ CheckYtdlp
    \/ LoadList
    \/ ExtractPlaylist
    \/ SaveList
    \/ Summarize

SpecExtract == InitExtract /\ [][NextExtract]_vars

\* the document as it was when the script began, and as it is on disk now
FirstFile == x_file[1]
LastFile == x_file[Len(x_file)]

\* the pass of the loop that handled playlist k, 0 when none has
PassOf(k) ==
    IF \E i \in 1..Len(x_log) : PlaylistKeys[i] = k
    THEN CHOOSE i \in 1..Len(x_log) : PlaylistKeys[i] = k
    ELSE 0

\* the playlist k of doc is that of FirstFile with videos put in its place
ReplacedBy(doc, k, videos) ==
    /\ DOMAIN doc.playlists[k] = DOMAIN FirstFile.playlists[k] \cup {"videos"}
    /\ doc.playlists[k].videos = videos
    /\ \A f \in DOMAIN FirstFile.playlists[k] \ {"videos"} :
          doc.playlists[k][f] = FirstFile.playlists[k][f]

\* doc is FirstFile but for the videos of the playlists whose extraction
\* returned videos
FrameHolds(doc) ==
    /\ DOMAIN doc = DOMAIN FirstFile
    /\ \A f \in DOMAIN doc \ {"playlists"} : doc[f] = FirstFile[f]
    /\ "playlists" \in DOMAIN doc =>
          /\ DOMAIN doc.playlists = DOMAIN FirstFile.playlists
          /\ \A k \in DOMAIN doc.playlists :
                IF PassOf(k) # 0 /\ x_log[PassOf(k)] # <<>>
                THEN ReplacedBy(doc, k, x_log[PassOf(k)])
                ELSE doc.playlists[k] = FirstFile.playlists[k]

\* C20: main of extract-youtube-ids.py replaces the videos of a playlist
\* only when the extraction for it returned a list that is not empty and the
\* key is in the loaded list; whatever the extractions return, a playlist
\* whose extraction failed or returned nothing, and a playlist PLAYLISTS does
\* not name, has its videos unchanged in the saved document, and no key is
\* added or removed
C20_OnlyExtractedPlaylistsChange ==
    x_pc \notin {"idle", "check", "load", "exit1"} =>
        /\ FrameHolds(x_video_list)
        /\ Len(x_file) = (IF x_pc \in {"summary", "done", "fault_after_save"}
                          THEN 2 ELSE 1)
        /\ Len(x_file) = 2 =>
              /\ Len(x_log) = Len(PlaylistKeys)
              /\ FrameHolds(LastFile)

C20_Witness ==
    /\ x_pc = "done"
    /\ DOMAIN FirstFile.playlists = FileKeys \ {PlaylistKeys[3]}
    /\ x_log[1] # <<>> /\ x_log[2] = <<>> /\ x_log[3] # <<>>
    /\ LastFile.playlists[PlaylistKeys[1]].videos = x_log[1]
    /\ LastFile.playlists[PlaylistKeys[1]].videos # OldVideos
    /\ LastFile.playlists[PlaylistKeys[2]] = FirstFile.playlists[PlaylistKeys[2]]
    /\ LastFile.playlists[PlaylistKeys[2]] = [name |-> "n", videos |-> OldVideos]
    /\ LastFile.playlists[OtherKey] = FirstFile.playlists[OtherKey]
    /\ PlaylistKeys[3] \notin DOMAIN LastFile.playlists

====
